---- MODULE Spec2Model ----
(***************************************************************************)
(* EmployeeAttritionAnalyzer (src/hr.py): the categorizer (process_data),  *)
(* the insight engine (generate_insights) and the recommendation engine    *)
(* (generate_recommendations), as a state machine over the analyzer's      *)
(* instance fields data, processed_data and insights, with the summary     *)
(* statistics (get_summary_stats) read from them.                          *)
(*                                                                         *)
(* Column names and string values are transliterated:                      *)
(*   "gender" = الجنس ("male" = ذكر, "female" = أنثى), "age" = السن,         *)
(*   "department" = الإدارة, "reason" = السبب, "year" = سنة_الترك,           *)
(*   "tenure" = مدة_الخدمة_بالسنوات, "salary" = الراتب_الشهري,              *)
(*   "age_group" = فئة_العمر, "tenure_group" = فئة_مدة_الخدمة,              *)
(*   "salary_group" = فئة_الراتب.                                          *)
(* Tenure is held in tenths of a year (the data source rounds it to one    *)
(* decimal, hr.py:139), so the tenure bin edges and the "< 2 years" test   *)
(* are scaled by ten.                                                      *)
(***************************************************************************)
EXTENDS Integers, Sequences, FiniteSets, TLC

VARIABLES df, data, processed_data, insights, call, raised, returned, first_run

vars == <<df, data, processed_data, insights, call, raised, returned, first_run>>

-----------------------------------------------------------------------------
(* IEEE-754 binary64 arithmetic, as numpy/Python perform it on the means   *)
(* and percentages of generate_insights.  A positive double is             *)
(* [k |-> "pos", m, e]: m = <<l1, l2, l3, l4>> the 53-bit significand in   *)
(* four base-2^14 limbs, least significant first, 2^10 <= l4 < 2^11; its   *)
(* value is (l1 + l2*B + l3*B^2 + l4*B^3) * 2^e.                           *)

LimbBits == 14

Pow2Table == <<1, 2, 4, 8, 16, 32, 64, 128, 256, 512, 1024, 2048, 4096, 8192, 16384>>

Pow2(n) == Pow2Table[n + 1]

B == Pow2(LimbBits)

NaNF == [k |-> "nan", m |-> <<0, 0, 0, 0>>, e |-> 0]

ZeroF == [k |-> "zero", m |-> <<0, 0, 0, 0>>, e |-> 0]

\* The significand m, plus one when up (round to nearest, ties to even
\* decided by the caller); a carry out of bit 52 renormalises.
FRoundUp(m, e, up) ==
    IF ~up THEN [k |-> "pos", m |-> m, e |-> e]
    ELSE LET c1 == (m[1] + 1) \div B
             c2 == (m[2] + c1) \div B
             c3 == (m[3] + c2) \div B
             l4 == m[4] + c3
         IN  IF l4 = Pow2(11)
             THEN [k |-> "pos", m |-> <<0, 0, 0, Pow2(10)>>, e |-> e + 1]
             ELSE [k |-> "pos",
                   m |-> <<(m[1] + 1) % B, (m[2] + c1) % B, (m[3] + c2) % B, l4>>,
                   e |-> e]

\* Scale so that n <= s < 2n; s/n is then (s/n) * 2^e with 1 <= s/n < 2.
RECURSIVE DivNorm(_, _, _)
DivNorm(s, n, e) ==
    IF s < n THEN DivNorm(2 * s, n, e - 1)
    ELSE IF s >= 2 * n THEN DivNorm(s, 2 * n, e + 1)
    ELSE <<s, n, e>>

\* One base-2^14 quotient limb of r/N, taken in two 7-bit steps so that
\* every product stays below 2^31 for N < 2^24: <<digits so far, remainder>>.
DivHalf(h, N) == <<h[1] * Pow2(7) + (h[2] * Pow2(7)) \div N, (h[2] * Pow2(7)) % N>>

\* Long division in base 2^14: k quotient limbs of r/N, most significant
\* first, followed by the remainder.
RECURSIVE DivLimbs(_, _, _)
DivNext(l, N, k) == <<l[1]>> \o DivLimbs(l[2], N, k - 1)

DivLimbs(r, N, k) ==
    IF k = 0 THEN <<r>>
    ELSE DivNext(DivHalf(DivHalf(<<0, r>>, N), N), N, k)

\* The quotient limbs q4 and d = <<q3, q2, q1, remainder>> rounded to 53
\* bits: the guard bit is the next quotient bit, the rest is sticky.
DivRound(q4, d, N, e) ==
    FRoundUp(<<d[3], d[2], d[1], q4>>, e,
             (2 * d[4]) \div N = 1 /\ ((2 * d[4]) % N # 0 \/ d[3] % 2 = 1))

\* t = <<s, n, e>> with n <= s < 2n: the double nearest (s/n) * 2^e.
DivScaled(t) ==
    DivRound((t[1] * Pow2(10)) \div t[2],
             DivLimbs((t[1] * Pow2(10)) % t[2], t[2], 3), t[2], t[3] - 52)

\* float(s) / float(n) for naturals s, n < 2^20 (numpy true division).
FDiv(s, n) ==
    IF n = 0 THEN NaNF
    ELSE IF s = 0 THEN ZeroF
    ELSE DivScaled(DivNorm(s, n, 0))

FromInt(n) == FDiv(n, 1)

\* The numbers in the source's comparisons and products.
F100 == FromInt(100)

F65 == FromInt(65)

F50 == FromInt(50)

F40 == FromInt(40)

F30 == FromInt(30)

\* The schoolbook product of two 4-limb significands, in 8 limbs.
MulLimbs(a, b) ==
    LET t1 == a[1] * b[1]
        t2 == a[1] * b[2] + a[2] * b[1] + t1 \div B
        t3 == a[1] * b[3] + a[2] * b[2] + a[3] * b[1] + t2 \div B
        t4 == a[1] * b[4] + a[2] * b[3] + a[3] * b[2] + a[4] * b[1] + t3 \div B
        t5 == a[2] * b[4] + a[3] * b[3] + a[4] * b[2] + t4 \div B
        t6 == a[3] * b[4] + a[4] * b[3] + t5 \div B
        t7 == a[4] * b[4] + t6 \div B
    IN  <<t1 % B, t2 % B, t3 % B, t4 % B, t5 % B, t6 % B, t7 % B, t7 \div B>>

\* The 8-limb product P, of 105 + (s - 10) bits, rounded to its top 53 bits:
\* s + 42 bits are dropped, the highest of them the guard bit.
MulShift(P, s) ==
    << (P[4] \div Pow2(s)) + (P[5] % Pow2(s)) * Pow2(LimbBits - s),
       (P[5] \div Pow2(s)) + (P[6] % Pow2(s)) * Pow2(LimbBits - s),
       (P[6] \div Pow2(s)) + (P[7] % Pow2(s)) * Pow2(LimbBits - s),
       (P[7] \div Pow2(s)) + (P[8] % Pow2(s)) * Pow2(LimbBits - s) >>

MulRoundsUp(P, s) ==
    /\ (P[4] \div Pow2(s - 1)) % 2 = 1
    /\ \/ P[4] % Pow2(s - 1) # 0
       \/ P[1] + P[2] + P[3] # 0
       \/ (P[4] \div Pow2(s)) % 2 = 1

MulRound(P, s, e) == FRoundUp(MulShift(P, s), e + 3 * LimbBits + s, MulRoundsUp(P, s))

MulProduct(P, e) == MulRound(P, IF P[8] >= Pow2(7) THEN 11 ELSE 10, e)

\* a * b on doubles: the exact 106-bit product rounded to 53 bits.
FMul(a, b) ==
    IF a.k = "nan" \/ b.k = "nan" THEN NaNF
    ELSE IF a.k = "zero" \/ b.k = "zero" THEN ZeroF
    ELSE MulProduct(MulLimbs(a.m, b.m), a.e + b.e)

RECURSIVE LimbsLess(_, _, _)
LimbsLess(x, y, i) ==
    IF i = 0 THEN FALSE
    ELSE IF x[i] # y[i] THEN x[i] < y[i]
    ELSE LimbsLess(x, y, i - 1)

\* a < b on doubles; any comparison with NaN is false.
FLess(a, b) ==
    IF a.k = "nan" \/ b.k = "nan" THEN FALSE
    ELSE IF b.k = "zero" THEN FALSE
    ELSE IF a.k = "zero" THEN TRUE
    ELSE IF a.e # b.e THEN a.e < b.e
    ELSE LimbsLess(a.m, b.m, 4)

\* Ten times a 4-limb significand, in 5 limbs.
TimesTen(m) ==
    LET t1 == m[1] * 10
        t2 == m[2] * 10 + t1 \div B
        t3 == m[3] * 10 + t2 \div B
        t4 == m[4] * 10 + t3 \div B
    IN  <<t1 % B, t2 % B, t3 % B, t4 % B, t4 \div B>>

LimbAt(T, i) == IF i <= Len(T) THEN T[i] ELSE 0

\* Bit j (from 0) of the limbs T, and whether any bit below it is set.
BitAt(T, j) == (LimbAt(T, j \div LimbBits + 1) \div Pow2(j % LimbBits)) % 2

AnyBelow(T, j) ==
    \/ LimbAt(T, j \div LimbBits + 1) % Pow2(j % LimbBits) # 0
    \/ \E i \in 1..(j \div LimbBits) : LimbAt(T, i) # 0

\* floor(T / 2^d) for T < 2^(d + 14)
ShiftRight(T, d) ==
    (LimbAt(T, d \div LimbBits + 1) \div Pow2(d % LimbBits))
    + LimbAt(T, d \div LimbBits + 2) * Pow2(LimbBits - (d % LimbBits))

\* T / 2^d rounded to an integer, ties to even.
RoundShift(T, d, hi) ==
    IF BitAt(T, d - 1) = 1 /\ (AnyBelow(T, d - 1) \/ hi % 2 = 1) THEN hi + 1 ELSE hi

\* f"{x:.1f}" for 0 <= x < 2^10: the double rounded to one decimal, ties to
\* even on its exact binary value; the result in tenths (-1 stands for the
\* text "nan").
Fmt1(x) ==
    IF x.k = "nan" THEN -1
    ELSE IF x.k = "zero" THEN 0
    ELSE RoundShift(TimesTen(x.m), 0 - x.e, ShiftRight(TimesTen(x.m), 0 - x.e))

-----------------------------------------------------------------------------
(* DataFrames: a set of column names and a sequence of rows, each row a    *)
(* function from the column names to values; id tells one DataFrame object *)
(* from another, so that an assignment to a column of one object is seen   *)
(* through every name bound to that object and through no other.  None is  *)
(* the Python None of the unset fields.                                    *)

None == [none |-> TRUE, id |-> 0, cols |-> {}, rows |-> <<>>]

\* A DataFrame built by the caller.
DataFrame(cols, rows) == [none |-> FALSE, id |-> 0, cols |-> cols, rows |-> rows]

PyNone == "None"

NaN == "NaN"

Columns == {"gender", "age", "department", "reason", "year", "tenure", "salary"}

\* No copy: the name bound to the object d itself.
alias(d) == d

\* DataFrame.copy(): a deep copy, a new object with the contents of d.
copy(d) == [d EXCEPT !.id = d.id + 1]

\* The last age bin closed at 60 instead of 100.
AgeBinsTo60 == <<0, 25, 35, 45, 55, 60>>

AgeBins == <<0, 25, 35, 45, 55, 100>>

AgeLabels == <<"<25", "25-35", "35-45", "45-55", ">55">>

\* Tenths of a year: bins=[0, 1, 3, 5, 10, 100] years.
ServiceBins == <<0, 10, 30, 50, 100, 1000>>

ServiceLabels == <<"<1", "1-3", "3-5", "5-10", ">10">>

SalaryBins == <<0, 5000, 8000, 12000, 20000, 100000>>

SalaryLabels == <<"<5000", "5000-8000", "8000-12000", "12000-20000", ">20000">>

\* pd.cut(x, bins, labels) with its default right=True: bin i is the
\* interval (bins[i], bins[i+1]]; a value in no bin is NaN.
cut(x, bins, labels) ==
    LET hit == {i \in 1..Len(labels) : bins[i] < x /\ x <= bins[i + 1]}
    IN  IF hit = {} THEN NaN ELSE labels[CHOOSE i \in hit : TRUE]

\* self.data[dst] = pd.cut(self.data[src], bins, labels): the object d with
\* the column dst set.
WithBand(d, src, dst, bins, labels) ==
    [d EXCEPT !.cols = d.cols \cup {dst},
              !.rows = [i \in 1..Len(d.rows) |->
                           [c \in d.cols \cup {dst} |->
                               IF c = dst THEN cut(d.rows[i][src], bins, labels)
                               ELSE d.rows[i][c]]]]

-----------------------------------------------------------------------------
(* generate_insights                                                       *)

Count(p, c, v) == Cardinality({i \in 1..Len(p.rows) : p.rows[i][c] = v})

CountBelow(p, c, v) == Cardinality({i \in 1..Len(p.rows) : p.rows[i][c] < v})

\* (mask).mean() * 100 for a boolean mask with k True among n rows.
Pct(k, n) == FMul(FDiv(k, n), F100)

Insight(kind, arg, pct) == [kind |-> kind, arg |-> arg, pct |-> pct]

\* The male threshold taken as "at least 65" instead of "more than 65".
GenderBranchAtLeast(male_pct, female_pct) ==
    IF ~FLess(male_pct, F65)
    THEN <<Insight("male_high", "", Fmt1(male_pct))>>
    ELSE IF FLess(F50, female_pct)
    THEN <<Insight("female_high", "", Fmt1(female_pct))>>
    ELSE <<>>

\* hr.py:179-182
GenderBranch(male_pct, female_pct) ==
    IF FLess(F65, male_pct)
    THEN <<Insight("male_high", "", Fmt1(male_pct))>>
    ELSE IF FLess(F50, female_pct)
    THEN <<Insight("female_high", "", Fmt1(female_pct))>>
    ELSE <<>>

\* hr.py:175-182
GenderInsight(p) ==
    GenderBranch(Pct(Count(p, "gender", "male"), Len(p.rows)),
                 Pct(Count(p, "gender", "female"), Len(p.rows)))

\* The reason catalog of load_sample_data in the order np.sort gives the
\* Arabic strings (code point order), which is the order Series.mode()
\* returns tied modes in.
ReasonsSorted ==
    << "personal reasons",          \* أسباب شخصية
       "completing studies",        \* استكمال الدراسة
       "family",                    \* التفرغ للعائلة
       "poor work environment",     \* بيئة عمل سيئة
       "career change",             \* تغيير المسار المهني
       "inadequate salary",         \* راتب غير مناسب
       "long working hours",        \* ساعات عمل طويلة
       "health",                    \* ظروف صحية
       "job instability",           \* عدم الاستقرار الوظيفي
       "no promotion",              \* عدم الترقية
       "job dissatisfaction",       \* عدم الرضا الوظيفي
       "another job opportunity",   \* فرصة عمل أخرى
       "management problems",       \* مشاكل مع الإدارة
       "relocation" >>              \* نقل لمكان آخر

Values(p, c) == {p.rows[i][c] : i \in 1..Len(p.rows)}

SetMax(S) == CHOOSE m \in S : \A k \in S : k <= m

SetMin(S) == CHOOSE m \in S : \A k \in S : m <= k

RECURSIVE SortedSeq(_)
SortedSeq(S) ==
    IF S = {} THEN <<>>
    ELSE <<SetMin(S)>> \o SortedSeq(S \ {SetMin(S)})

FirstIndex(p, c, v) == SetMin({i \in 1..Len(p.rows) : p.rows[i][c] = v})

\* The <<value, count>> pairs of the rows at the given indices.
Counted(p, c, first) ==
    [j \in 1..Len(first) |-> <<p.rows[first[j]][c], Count(p, c, p.rows[first[j]][c])>>]

\* The distinct values of a column in order of first appearance (the order
\* of the hash table value_counts builds), each with its count.
Unique(p, c) == Counted(p, c, SortedSeq({FirstIndex(p, c, v) : v \in Values(p, c)}))

Without(s, i) == SubSeq(s, 1, i - 1) \o SubSeq(s, i + 1, Len(s))

\* The last index holding a maximal count: tied values in reverse order of
\* appearance.
LastMax(vc) == SetMax({i \in 1..Len(vc) : \A j \in 1..Len(vc) : vc[j][2] <= vc[i][2]})

\* The first index holding a maximal count.
FirstMax(vc) == SetMin({i \in 1..Len(vc) : \A j \in 1..Len(vc) : vc[j][2] <= vc[i][2]})

\* Stable sort of <<value, count>> pairs by count, descending.
RECURSIVE SortByCount(_)
SortByCount(vc) ==
    IF Len(vc) = 0 THEN <<>>
    ELSE <<vc[FirstMax(vc)]>> \o SortByCount(Without(vc, FirstMax(vc)))

\* Series.value_counts(): the distinct values by descending count, tied
\* values in order of first appearance.
value_counts(p, c) == SortByCount(Unique(p, c))

\* value_counts().index[0]
TopValue(p, c) == value_counts(p, c)[1][1]

\* A tie between modes resolved as value_counts resolves it: by first
\* appearance instead of sort order.
top_reason_first_seen(p) == TopValue(p, "reason")

MaxCount(p, c) == SetMax({Count(p, c, v) : v \in Values(p, c)})

\* Series.mode(): the values of maximal count, sorted.
mode(p, c) ==
    LET IsModal(v) == v \in Values(p, c) /\ Count(p, c, v) = MaxCount(p, c)
    IN  SelectSeq(ReasonsSorted, IsModal)

\* self.processed_data['reason'].mode().iloc[0]
top_reason(p) == mode(p, "reason")[1]

\* hr.py:186-187
ReasonLine(p, r) ==
    <<Insight("top_reason", r, Fmt1(Pct(Count(p, "reason", r), Len(p.rows))))>>

\* hr.py:184-187
ReasonInsight(p) == ReasonLine(p, top_reason(p))

\* groupby('year').size(): one count per distinct year, years ascending.
yearly_trend(p) ==
    LET ys == SortedSeq(Values(p, "year"))
    IN  [j \in 1..Len(ys) |-> Count(p, "year", ys[j])]

RECURSIVE Sum(_)
Sum(s) == IF s = <<>> THEN 0 ELSE s[1] + Sum(Tail(s))

\* The mean of no value taken as 0 instead of NaN.
mean_or_zero(s) == IF Len(s) = 0 THEN ZeroF ELSE FDiv(Sum(s), Len(s))

\* Series.mean() of integer counts: float sum / count, NaN when empty.
mean(s) == FDiv(Sum(s), Len(s))

\* s.iloc[-3:] and s.iloc[:-3]
Last3(s) == SubSeq(s, IF Len(s) > 3 THEN Len(s) - 2 ELSE 1, Len(s))

AllButLast3(s) == SubSeq(s, 1, Len(s) - 3)

\* The float literals 1.2 and 0.8: the doubles nearest 6/5 and 4/5.
F1_2 == FDiv(6, 5)

F0_8 == FDiv(4, 5)

\* hr.py:194-197
TrendBranch(recent_years, earlier_years) ==
    IF FLess(FMul(earlier_years, F1_2), recent_years)
    THEN <<Insight("trend_up", "", 0)>>
    ELSE IF FLess(recent_years, FMul(earlier_years, F0_8))
    THEN <<Insight("trend_down", "", 0)>>
    ELSE <<>>

\* hr.py:191-197
TrendOf(yt) ==
    IF Len(yt) > 1
    THEN TrendBranch(mean(Last3(yt)), mean(AllButLast3(yt)))
    ELSE <<>>

\* hr.py:189-197
TrendInsight(p) == TrendOf(yearly_trend(p))

\* hr.py:199-202
DeptInsight(p) == <<Insight("top_dept", TopValue(p, "department"), 0)>>

\* hr.py:206-207
AgeBranch(young_employees) ==
    IF FLess(F40, young_employees)
    THEN <<Insight("young", "", Fmt1(young_employees))>>
    ELSE <<>>

\* hr.py:204-207
AgeInsight(p) == AgeBranch(Pct(CountBelow(p, "age", 30), Len(p.rows)))

\* hr.py:211-212
ServiceBranch(short_service) ==
    IF FLess(F30, short_service)
    THEN <<Insight("short_service", "", Fmt1(short_service))>>
    ELSE <<>>

\* hr.py:209-212 (tenure < 2 years, in tenths)
ServiceInsight(p) == ServiceBranch(Pct(CountBelow(p, "tenure", 20), Len(p.rows)))

\* The department rule run ahead of the yearly-trend rule.
InsightListDeptFirst(p) ==
    GenderInsight(p) \o ReasonInsight(p) \o DeptInsight(p) \o TrendInsight(p) \o
    AgeInsight(p) \o ServiceInsight(p)

\* The list generate_insights builds when no statement raises.
InsightList(p) ==
    GenderInsight(p) \o ReasonInsight(p) \o TrendInsight(p) \o
    DeptInsight(p) \o AgeInsight(p) \o ServiceInsight(p)

Raise(e) == [raised |-> e, value |-> <<>>]

Return(v) == [raised |-> "none", value |-> v]

\* The body of generate_insights past the None check: the exception of the
\* first statement that raises, or the list assigned to self.insights.
InsightsOutcome(p) ==
    IF "gender" \notin p.cols THEN Raise("KeyError")
    ELSE IF "reason" \notin p.cols THEN Raise("KeyError")
    ELSE IF Len(p.rows) = 0 THEN Raise("IndexError")
    ELSE IF "year" \notin p.cols THEN Raise("KeyError")
    ELSE IF "department" \notin p.cols THEN Raise("KeyError")
    ELSE Return(InsightList(p))

-----------------------------------------------------------------------------
(* generate_recommendations                                                *)

Rec(kind, arg) == [kind |-> kind, arg |-> arg]

\* The last branch taken as a plain else: every other reason is treated as
\* a poor work environment.
ReasonBranchElse(r) ==
    IF r = "another job opportunity"
    THEN <<Rec("improve_benefits", ""), Rec("retention_programs", "")>>
    ELSE IF r = "inadequate salary"
    THEN <<Rec("review_salary_structure", ""), Rec("salary_study", "")>>
    ELSE <<Rec("improve_environment", ""), Rec("improve_communication", "")>>

\* hr.py:251-259
ReasonBranch(r) ==
    IF r = "another job opportunity"
    THEN <<Rec("improve_benefits", ""), Rec("retention_programs", "")>>
    ELSE IF r = "inadequate salary"
    THEN <<Rec("review_salary_structure", ""), Rec("salary_study", "")>>
    ELSE IF r = "poor work environment"
    THEN <<Rec("improve_environment", ""), Rec("improve_communication", "")>>
    ELSE <<>>

\* hr.py:249-259
ReasonRecs(p) == ReasonBranch(top_reason(p))

\* The threshold taken as "at least 30" instead of "more than 30".
ServiceRecsAtLeast(p) ==
    IF ~FLess(Pct(CountBelow(p, "tenure", 20), Len(p.rows)), F30)
    THEN <<Rec("onboarding", ""), Rec("review_recruitment", "")>>
    ELSE <<>>

\* hr.py:261-265
ServiceRecs(p) ==
    IF FLess(F30, Pct(CountBelow(p, "tenure", 20), Len(p.rows)))
    THEN <<Rec("onboarding", ""), Rec("review_recruitment", "")>>
    ELSE <<>>

\* The else branch left out: a recommendation only when the male share is high.
GenderRecsMaleOnly(p) ==
    IF FLess(F65, Pct(Count(p, "gender", "male"), Len(p.rows)))
    THEN <<Rec("focus_male", "")>>
    ELSE <<>>

\* hr.py:267-272
GenderRecs(p) ==
    IF FLess(F65, Pct(Count(p, "gender", "male"), Len(p.rows)))
    THEN <<Rec("focus_male", "")>>
    ELSE <<Rec("work_life_balance", "")>>

\* hr.py:274-276
DeptRecs(p) == <<Rec("dept_attention", TopValue(p, "department"))>>

RecommendationList(p) == ReasonRecs(p) \o ServiceRecs(p) \o GenderRecs(p) \o DeptRecs(p)

RecommendationsOutcome(p) ==
    IF p.none THEN Raise("TypeError")
    ELSE IF "reason" \notin p.cols THEN Raise("KeyError")
    ELSE IF Len(p.rows) = 0 THEN Raise("IndexError")
    ELSE IF "tenure" \notin p.cols THEN Raise("KeyError")
    ELSE IF "gender" \notin p.cols THEN Raise("KeyError")
    ELSE IF "department" \notin p.cols THEN Raise("KeyError")
    ELSE Return(RecommendationList(p))

-----------------------------------------------------------------------------
(* get_summary_stats (hr.py:216-243)                                       *)

Column(p, c) == [i \in 1..Len(p.rows) |-> p.rows[i][c]]

\* The guard dropped: count / total * 100 whatever the total.
UnguardedPct(count, total) == Pct(count, total)

\* hr.py:235-236: (count / total * 100) if total > 0 else 0; the int 0 of the
\* else branch is held as the double 0.0 it equals.
GuardedPct(count, total) == IF total > 0 THEN Pct(count, total) ELSE ZeroF

\* hr.py:229: the smallest and the largest year, NaN for both when there is
\* no row.
YearsRange(years) ==
    IF years = {} THEN [min |-> NaN, max |-> NaN]
    ELSE [min |-> SetMin(years), max |-> SetMax(years)]

\* hr.py:231-243; avg_service is the mean of the tenures in years, taken
\* here as the double nearest the exact mean of the tenths.
SummaryStats(p) ==
    [total |-> Len(p.rows),
     male_count |-> Count(p, "gender", "male"),
     female_count |-> Count(p, "gender", "female"),
     male_pct |-> GuardedPct(Count(p, "gender", "male"), Len(p.rows)),
     female_pct |-> GuardedPct(Count(p, "gender", "female"), Len(p.rows)),
     avg_age |-> mean(Column(p, "age")),
     avg_service |-> FDiv(Sum(Column(p, "tenure")), 10 * Len(p.rows)),
     avg_salary |-> mean(Column(p, "salary")),
     years_range |-> YearsRange(Values(p, "year")),
     unique_reasons |-> Cardinality(Values(p, "reason")),
     unique_departments |-> Cardinality(Values(p, "department"))]

\* The empty dict returned while no dataset is stored.
EmptyDict == <<>>

\* get_summary_stats, with the exceptions its statements raise: KeyError
\* for a column the stored dataset lacks.
SummaryOutcome(p) ==
    IF p.none THEN Return(EmptyDict)
    ELSE IF {"gender", "age", "tenure", "salary", "year", "reason", "department"}
                \subseteq p.cols
    THEN Return(SummaryStats(p))
    ELSE Raise("KeyError")

-----------------------------------------------------------------------------
(* The analyzer's operations.  call, raised and returned record the most   *)
(* recent call: its name, the exception it raised ("none" if it returned)  *)
(* and its return value; df is the dataset last passed to process_data,    *)
(* as the caller sees it after the call.  first_run is a history variable: *)
(* the dataset of the analyzer's first process_data call and the fields    *)
(* that call left.                                                         *)

NoRun == [ran |-> FALSE, df |-> None, processed_data |-> None, insights |-> <<>>]

Run(d, p, i) == [ran |-> TRUE, df |-> d, processed_data |-> p, insights |-> i]

\* hr.py:95-98
Construct ==
    /\ data = None
    /\ processed_data = None
    /\ insights = <<>>
    /\ call = "__init__"
    /\ raised = "none"
    /\ returned = PyNone
    /\ first_run = NoRun

\* The end of generate_insights: self.insights = insights (hr.py:214), which
\* an exception raised before it leaves unexecuted.
StoreInsights(gi) ==
    /\ raised' = gi.raised
    /\ insights' = IF gi.raised = "none" THEN gi.value ELSE insights

\* process_data stopped by the KeyError of a missing column, self.data
\* holding the columns added so far (hr.py:146-161).
StopAt(d) ==
    /\ data' = d
    /\ raised' = "KeyError"
    /\ UNCHANGED <<processed_data, insights>>

\* hr.py:163-164
Finish(d) ==
    /\ data' = d
    /\ processed_data' = copy(d)
    /\ StoreInsights(InsightsOutcome(copy(d)))

AgeBand(d) == WithBand(d, "age", "age_group", AgeBins, AgeLabels)

ServiceBand(d) == WithBand(d, "tenure", "tenure_group", ServiceBins, ServiceLabels)

SalaryBand(d) == WithBand(d, "salary", "salary_group", SalaryBins, SalaryLabels)

\* The caller's object d after the column assignments that made self.data
\* the object written: they reach d only if the two are one object.
Argument(d, written) == IF written.id = d.id THEN written ELSE d

\* hr.py:144-166
ProcessData(d) ==
    /\ call' = "process_data"
    /\ IF "age" \notin d.cols THEN StopAt(copy(d))
       ELSE IF "tenure" \notin d.cols THEN StopAt(AgeBand(copy(d)))
       ELSE IF "salary" \notin d.cols THEN StopAt(ServiceBand(AgeBand(copy(d))))
       ELSE Finish(SalaryBand(ServiceBand(AgeBand(copy(d)))))
    /\ df' = Argument(d, data')
    /\ returned' = IF raised' = "none" THEN "True" ELSE PyNone
    /\ first_run' = IF first_run.ran THEN first_run ELSE Run(d, processed_data', insights')

\* hr.py:168-214
GenerateInsights ==
    /\ call' = "generate_insights"
    /\ returned' = PyNone
    /\ IF processed_data.none
       THEN raised' = "none" /\ UNCHANGED insights
       ELSE StoreInsights(InsightsOutcome(processed_data))
    /\ UNCHANGED <<df, data, processed_data, first_run>>

Returns(gr) ==
    /\ raised' = gr.raised
    /\ returned' = IF gr.raised = "none" THEN gr.value ELSE PyNone

\* hr.py:245-278
GenerateRecommendations ==
    /\ call' = "generate_recommendations"
    /\ Returns(RecommendationsOutcome(processed_data))
    /\ UNCHANGED <<df, data, processed_data, insights, first_run>>

\* hr.py:216-243
GetSummaryStats ==
    /\ call' = "get_summary_stats"
    /\ Returns(SummaryOutcome(processed_data))
    /\ UNCHANGED <<df, data, processed_data, insights, first_run>>

-----------------------------------------------------------------------------
(* Datasets                                                                *)

Row(g, a, d, r, y, t, s) ==
    [gender |-> g, age |-> a, department |-> d, reason |-> r, year |-> y,
     tenure |-> t, salary |-> s]

\* The dataset without column c.
DropColumn(d, c) ==
    DataFrame(d.cols \ {c},
              [i \in 1..Len(d.rows) |-> [k \in d.cols \ {c} |-> d.rows[i][k]]])

SeqsUpTo(S, n) == UNION {[1..k -> S] : k \in 0..n}

\* A session: datasets of a few rows, whole or lacking one column.
MaxSessionRows == 1

SessionRows ==
    { Row("male", 28, "IT", "another job opportunity", 2023, 15, 6000),
      Row("female", 41, "HR", "inadequate salary", 2024, 60, 9000) }

DroppedColumns == {"age", "year"}

SessionDatasets ==
    LET whole == {DataFrame(Columns, rows) : rows \in SeqsUpTo(SessionRows, MaxSessionRows)}
    IN  whole \cup {DropColumn(d, c) : d \in whole, c \in DroppedColumns}

Init ==
    /\ df = None
    /\ Construct

Next ==
    \/ \E d \in SessionDatasets : ProcessData(d)
    \/ GenerateInsights
    \/ GenerateRecommendations
    \/ GetSummaryStats

Spec == Init /\ [][Next]_vars

-----------------------------------------------------------------------------
(* The rules on one dataset: the dataset is drawn at the start and the     *)
(* analyzer's operations are applied to it.                                *)

Repeat(r, k) == [i \in 1..k |-> r]

\* Short datasets over rows that differ in every attribute.
MaxRows == 3

RuleRows ==
    { Row("male", 29, "IT", "another job opportunity", 2021, 19, 4000),
      Row("female", 30, "HR", "inadequate salary", 2022, 20, 5000),
      Row("male", 45, "Sales", "poor work environment", 2023, 100, 12000),
      Row("female", 25, "IT", "personal reasons", 2024, 10, 8000),
      Row("male", 55, "HR", "no promotion", 2024, 30, 20000),
      Row("male", 35, "Sales", "inadequate salary", 2020, 50, 25000) }

SmallDatasets == {DataFrame(Columns, rows) : rows \in SeqsUpTo(RuleRows, MaxRows)}

\* k male rows followed by n - k female rows.
MaxGenderRows == 20

MaleRow == Row("male", 28, "IT", "another job opportunity", 2023, 15, 6000)

FemaleRow == Row("female", 41, "HR", "inadequate salary", 2024, 60, 9000)

GenderDatasets ==
    UNION { {DataFrame(Columns, Repeat(MaleRow, k) \o Repeat(FemaleRow, n - k)) : k \in 0..n}
            : n \in 1..MaxGenderRows }

\* Up to MaxPerYear departures in each of six years.
MaxPerYear == 2

Years == <<2019, 2020, 2021, 2022, 2023, 2024>>

YearRow(y) == Row("male", 28, "IT", "another job opportunity", y, 15, 6000)

RECURSIVE YearRows(_, _)
YearRows(counts, j) ==
    IF j > Len(counts) THEN <<>>
    ELSE Repeat(YearRow(Years[j]), counts[j]) \o YearRows(counts, j + 1)

YearDatasets ==
    {DataFrame(Columns, YearRows(counts, 1)) : counts \in [1..Len(Years) -> 0..MaxPerYear]}

\* Yearly counts [2, 2, 2, 10, 10] for 2020-2024.
TrendExample == DataFrame(Columns, YearRows(<<0, 2, 2, 2, 10, 10>>, 1))

\* One record, with one numeric attribute on or beyond a bin edge.
AgeValues == {0, 22, 25, 35, 45, 55, 65, 100, 101}

ServiceValues == {0, 5, 10, 30, 50, 100, 200, 1000, 1001}

SalaryValues == {0, 3000, 5000, 8000, 12000, 20000, 25000, 100000, 100001}

BandDatasets ==
    {DataFrame(Columns, <<[FemaleRow EXCEPT !.age = v]>>) : v \in AgeValues}
    \cup {DataFrame(Columns, <<[FemaleRow EXCEPT !.tenure = v]>>) : v \in ServiceValues}
    \cup {DataFrame(Columns, <<[FemaleRow EXCEPT !.salary = v]>>) : v \in SalaryValues}

RuleDatasets ==
    SmallDatasets \cup GenderDatasets \cup YearDatasets \cup BandDatasets \cup {TrendExample}

InitRules ==
    /\ df \in RuleDatasets
    /\ Construct

NextRules ==
    \/ ProcessData(df)
    \/ GenerateInsights
    \/ GenerateRecommendations
    \/ GetSummaryStats

SpecRules == InitRules /\ [][NextRules]_vars

-----------------------------------------------------------------------------
(* Properties                                                              *)

PRows == processed_data.rows

\* A non-empty dataset has been processed.
Ran == ~processed_data.none /\ Len(PRows) > 0

Has(kind) == \E i \in 1..Len(insights) : insights[i].kind = kind

RowsWith(c, v) == Cardinality({i \in 1..Len(PRows) : PRows[i][c] = v})

\* <<column, band column, interior bin edge, label of the band starting there>>
BandStartingAt ==
    { <<"age", "age_group", 25, "25-35">>, <<"age", "age_group", 35, "35-45">>,
      <<"age", "age_group", 45, "45-55">>, <<"age", "age_group", 55, ">55">>,
      <<"tenure", "tenure_group", 10, "1-3">>, <<"tenure", "tenure_group", 30, "3-5">>,
      <<"tenure", "tenure_group", 50, "5-10">>, <<"tenure", "tenure_group", 100, ">10">>,
      <<"salary", "salary_group", 5000, "5000-8000">>,
      <<"salary", "salary_group", 8000, "8000-12000">>,
      <<"salary", "salary_group", 12000, "12000-20000">>,
      <<"salary", "salary_group", 20000, ">20000">> }

\* C1: right-open bands: every processed record whose age, tenure or salary
\* equals an interior bin edge carries the band that starts at that edge
\* (age 25 is "25-35", not "<25").
C1_BoundaryInUpperBand ==
    ~processed_data.none =>
        \A i \in 1..Len(PRows) : \A b \in BandStartingAt :
            PRows[i][b[1]] = b[3] => PRows[i][b[2]] = b[4]

InDeclaredRange(r) ==
    /\ r["age"] \in 22..65
    /\ r["tenure"] \in 5..200
    /\ r["salary"] \in 3000..25000

\* C2: after process_data, every record within the declared ranges (age
\* 22..65, tenure 0.5..20 years, salary 3000..25000) carries one label of
\* each band dimension, none of them null.
C2_InRangeBanded ==
    ~processed_data.none =>
        \A i \in 1..Len(PRows) :
            InDeclaredRange(PRows[i]) =>
                /\ PRows[i]["age_group"] \in {"<25", "25-35", "35-45", "45-55", ">55"}
                /\ PRows[i]["tenure_group"] \in {"<1", "1-3", "3-5", "5-10", ">10"}
                /\ PRows[i]["salary_group"] \in
                       {"<5000", "5000-8000", "8000-12000", "12000-20000", ">20000"}

\* A processed record at the upper end of the declared age range.
C2_Witness ==
    /\ call = "process_data"
    /\ ~processed_data.none
    /\ \E i \in 1..Len(PRows) :
          InDeclaredRange(PRows[i]) /\ PRows[i]["age"] = 65 /\ PRows[i]["age_group"] = ">55"

\* C3: every value at or above the top bin edge (age >= 55, tenure >= 10
\* years, salary >= 20000, however large) is in the last band of its
\* dimension, and no record has a missing band label.
C3_TopBandCatchesAll ==
    ~processed_data.none =>
        \A i \in 1..Len(PRows) :
            /\ PRows[i]["age"] >= 55 => PRows[i]["age_group"] = ">55"
            /\ PRows[i]["tenure"] >= 100 => PRows[i]["tenure_group"] = ">10"
            /\ PRows[i]["salary"] >= 20000 => PRows[i]["salary_group"] = ">20000"
            /\ PRows[i]["age_group"] # NaN
            /\ PRows[i]["tenure_group"] # NaN
            /\ PRows[i]["salary_group"] # NaN

\* C4: on an empty dataset process_data returns, leaving an empty insight
\* list, and generate_recommendations returns a list.
C4_EmptyDatasetNoFault ==
    /\ (call = "process_data" /\ df.cols = Columns /\ Len(df.rows) = 0)
           => (raised = "none" /\ insights = <<>>)
    /\ (call = "generate_recommendations" /\ ~processed_data.none /\ Len(PRows) = 0)
           => raised = "none"

\* The insight list derived from a stored processed dataset: the rules'
\* list, and none where there is no dataset or the rules cannot run on it.
DerivedInsights(p) ==
    IF p.none \/ InsightsOutcome(p).raised # "none" THEN <<>>
    ELSE InsightsOutcome(p).value

\* C5: after any sequence of calls the stored insight list is the one derived
\* from the stored processed dataset, never one left from an earlier dataset.
C5_InsightsFromProcessed == insights = DerivedInsights(processed_data)

\* C6: a process_data call that fails on a missing column leaves data,
\* processed_data and insights as they were before the call.
C6_FailedCallChangesNothing ==
    [][(call' = "process_data" /\ raised' = "KeyError")
          => UNCHANGED <<data, processed_data, insights>>]_vars

YearsOf == {PRows[i]["year"] : i \in 1..Len(PRows)}

\* The most recent three distinct years, and the rows in a set of years.
RecentYears == {y \in YearsOf : Cardinality({z \in YearsOf : z > y}) < 3}

EarlierYears == YearsOf \ RecentYears

RowsIn(Y) == Cardinality({i \in 1..Len(PRows) : PRows[i]["year"] \in Y})

\* mean(recent) > 1.2 * mean(earlier) and mean(recent) < 0.8 * mean(earlier),
\* on the exact means.
RecentAbove ==
    /\ EarlierYears # {}
    /\ 10 * RowsIn(RecentYears) * Cardinality(EarlierYears)
           > 12 * RowsIn(EarlierYears) * Cardinality(RecentYears)

RecentBelow ==
    /\ EarlierYears # {}
    /\ 10 * RowsIn(RecentYears) * Cardinality(EarlierYears)
           < 8 * RowsIn(EarlierYears) * Cardinality(RecentYears)

\* C7: with at least two distinct years, the upward-trend insight is emitted
\* exactly when the mean yearly count of the most recent three years exceeds
\* 1.2 times the mean of the earlier years, the downward-trend insight
\* exactly when it is below 0.8 times that mean.
C7_TrendByMeans ==
    (Ran /\ Cardinality(YearsOf) >= 2) =>
        /\ Has("trend_up") <=> RecentAbove
        /\ Has("trend_down") <=> RecentBelow

ReasonRank(r) == CHOOSE k \in 1..Len(ReasonsSorted) : ReasonsSorted[k] = r

\* r has maximal count and sorts first among the reasons of maximal count.
Dominant(r) ==
    /\ RowsWith("reason", r) > 0
    /\ \A i \in 1..Len(PRows) :
          /\ RowsWith("reason", PRows[i]["reason"]) <= RowsWith("reason", r)
          /\ RowsWith("reason", PRows[i]["reason"]) = RowsWith("reason", r)
                => ReasonRank(r) <= ReasonRank(PRows[i]["reason"])

\* <<reason, first of the two recommendations fixed for it>>
NamedReasons ==
    { <<"another job opportunity", "improve_benefits">>,
      <<"inadequate salary", "review_salary_structure">>,
      <<"poor work environment", "improve_environment">> }

Recommends(kind) == \E j \in 1..Len(returned) : returned[j].kind = kind

\* C8: the dominant reason of the insight list and of the recommendations is
\* one reason: it has maximal count and, among tied reasons, sorts first.
C8_DominantReason ==
    Ran =>
        /\ \E i \in 1..Len(insights) :
              insights[i].kind = "top_reason" /\ Dominant(insights[i].arg)
        /\ (call = "generate_recommendations" /\ raised = "none") =>
              \A n \in NamedReasons : Dominant(n[1]) <=> Recommends(n[2])

\* Two reasons tie for the maximum, the one met first sorts last, and the
\* recommendations have been generated.
C8_Witness ==
    /\ Ran
    /\ call = "generate_recommendations"
    /\ raised = "none"
    /\ Len(PRows) >= 2
    /\ ~Dominant(PRows[1]["reason"])
    /\ \A i \in 1..Len(PRows) :
          RowsWith("reason", PRows[i]["reason"]) <= RowsWith("reason", PRows[1]["reason"])
    /\ \E n \in NamedReasons : Recommends(n[2])

Males == RowsWith("gender", "male")

Females == RowsWith("gender", "female")

GenderInsights == {i \in 1..Len(insights) : insights[i].kind \in {"male_high", "female_high"}}

\* C9: the male warning is emitted exactly when the male share is above 65%,
\* otherwise the female warning exactly when the female share is above 50%;
\* never both.
C9_GenderSkew ==
    Ran =>
        /\ Has("male_high") <=> 100 * Males > 65 * Len(PRows)
        /\ Has("female_high") <=>
              (~(100 * Males > 65 * Len(PRows)) /\ 100 * Females > 50 * Len(PRows))
        /\ Cardinality(GenderInsights) <= 1

\* 7 male of 10: the male warning, citing 70.0%.
C9_Witness ==
    /\ Ran
    /\ Len(PRows) = 10
    /\ Males = 7
    /\ Len(insights) > 0
    /\ insights[1] = Insight("male_high", "", 700)

RuleOrder(kind) ==
    CASE kind \in {"male_high", "female_high"} -> 1
      [] kind = "top_reason" -> 2
      [] kind \in {"trend_up", "trend_down"} -> 3
      [] kind = "top_dept" -> 4
      [] kind = "young" -> 5
      [] kind = "short_service" -> 6

\* C10: the insight list follows the fixed rule order, one string at most
\* per rule, the dominant-reason and top-department insights always present:
\* between 2 and 6 strings.
C10_RuleOrder ==
    Ran =>
        /\ \A i \in 1..(Len(insights) - 1) :
              RuleOrder(insights[i].kind) < RuleOrder(insights[i + 1].kind)
        /\ Has("top_reason")
        /\ Has("top_dept")
        /\ Len(insights) >= 2
        /\ Len(insights) <= 6

\* All six rules fire.
C10_Witness == Ran /\ Len(insights) = 6

\* The recommendations of a non-empty dataset have been returned.
Recommended == Ran /\ call = "generate_recommendations" /\ raised = "none"

\* The rule a recommendation comes from: dominant reason, short tenure,
\* gender, department.
RecRule(kind) ==
    CASE kind \in {"improve_benefits", "retention_programs", "review_salary_structure",
                   "salary_study", "improve_environment", "improve_communication"} -> 1
      [] kind \in {"onboarding", "review_recruitment"} -> 2
      [] kind \in {"focus_male", "work_life_balance"} -> 3
      [] kind = "dept_attention" -> 4

RecsOfRule(k) == Cardinality({j \in 1..Len(returned) : RecRule(returned[j].kind) = k})

\* C11: the recommendation list holds, in this order, 0 or 2 dominant-reason
\* strings, 0 or 2 onboarding strings, exactly one gender string (the
\* male-focused one exactly when the male share is above 65%, else the
\* work-life-balance one) and exactly one department string, last: 2, 4 or 6
\* strings.
C11_RecommendationShape ==
    Recommended =>
        /\ \A j \in 1..(Len(returned) - 1) :
              RecRule(returned[j].kind) <= RecRule(returned[j + 1].kind)
        /\ RecsOfRule(1) \in {0, 2}
        /\ RecsOfRule(2) \in {0, 2}
        /\ RecsOfRule(3) = 1
        /\ RecsOfRule(4) = 1
        /\ returned[Len(returned)].kind = "dept_attention"
        /\ Recommends("focus_male") <=> 100 * Males > 65 * Len(PRows)
        /\ Recommends("work_life_balance") <=> ~(100 * Males > 65 * Len(PRows))
        /\ Len(returned) \in {2, 4, 6}

\* Every rule contributes, the gender rule on its male branch.
C11_Witness ==
    /\ Recommended
    /\ Len(returned) = 6
    /\ returned[5].kind = "focus_male"
    /\ returned[6].kind = "dept_attention"

\* <<reason, the two recommendations fixed for it>>
FixedPairs ==
    { <<"another job opportunity", "improve_benefits", "retention_programs">>,
      <<"inadequate salary", "review_salary_structure", "salary_study">>,
      <<"poor work environment", "improve_environment", "improve_communication">> }

\* C12: generate_recommendations on a non-empty dataset raises nothing; its
\* dominant-reason rule contributes exactly the two strings fixed for the
\* dominant reason when that is one of the three named reasons, and no
\* string for any other dominant reason.
C12_ReasonRecommendations ==
    /\ (Ran /\ call = "generate_recommendations") => raised = "none"
    /\ Recommended =>
          /\ \A f \in FixedPairs :
                Dominant(f[1]) =>
                    /\ RecsOfRule(1) = 2
                    /\ returned[1].kind = f[2]
                    /\ returned[2].kind = f[3]
          /\ (\A f \in FixedPairs : ~Dominant(f[1])) => RecsOfRule(1) = 0

\* Ten records, all with reason "inadequate salary": the two
\* salary-structure strings.
C12_Witness ==
    /\ Recommended
    /\ Len(PRows) = 10
    /\ RowsWith("reason", "inadequate salary") = 10
    /\ returned[1].kind = "review_salary_structure"
    /\ returned[2].kind = "salary_study"

\* The first record of department d.
FirstRecordOf(d) ==
    CHOOSE i \in 1..Len(PRows) :
        /\ PRows[i]["department"] = d
        /\ \A j \in 1..(i - 1) : PRows[j]["department"] # d

\* d has the highest record count and, among the departments with that
\* count, is the one met first in the dataset.
LeadingDept(d) ==
    /\ RowsWith("department", d) > 0
    /\ \A i \in 1..Len(PRows) :
          /\ RowsWith("department", PRows[i]["department"]) <= RowsWith("department", d)
          /\ RowsWith("department", PRows[i]["department"]) = RowsWith("department", d)
                => FirstRecordOf(d) <= i

\* C13: the department named by the top-department insight and by the
\* department recommendation has the highest record count and, among
\* departments tied for it, is the one encountered first in the dataset.
C13_TopDepartment ==
    /\ Ran => \E i \in 1..Len(insights) :
                  insights[i].kind = "top_dept" /\ LeadingDept(insights[i].arg)
    /\ Recommended =>
          \E j \in 1..Len(returned) :
              returned[j].kind = "dept_attention" /\ LeadingDept(returned[j].arg)

\* Sales and HR tie, Sales met first: both outputs name Sales.
C13_Witness ==
    /\ Recommended
    /\ Len(PRows) = 2
    /\ PRows[1]["department"] = "Sales"
    /\ PRows[2]["department"] = "HR"
    /\ \E i \in 1..Len(insights) : insights[i] = Insight("top_dept", "Sales", 0)
    /\ returned[Len(returned)] = Rec("dept_attention", "Sales")

\* The records with a tenure below 2 years (20 tenths).
ShortTenured == Cardinality({i \in 1..Len(PRows) : PRows[i]["tenure"] < 20})

\* C14: the short-tenure insight is emitted exactly when more than 30% of
\* the records have a tenure below 2 years, and exactly then the
\* recommendations hold the onboarding and the recruitment string.
C14_ShortTenure ==
    /\ Ran => (Has("short_service") <=> 100 * ShortTenured > 30 * Len(PRows))
    /\ Recommended =>
          /\ Recommends("onboarding") <=> 100 * ShortTenured > 30 * Len(PRows)
          /\ Recommends("review_recruitment") <=> Recommends("onboarding")
          /\ Has("short_service") <=> Recommends("onboarding")

\* 4 of 10 records below 2 years: the insight, citing 40.0%, and the two
\* strings.
C14_Witness ==
    /\ Recommended
    /\ Len(PRows) = 10
    /\ ShortTenured = 4
    /\ insights[Len(insights)] = Insight("short_service", "", 400)
    /\ Recommends("onboarding")
    /\ Recommends("review_recruitment")

-----------------------------------------------------------------------------
(* Sums of two doubles, for the percentages of get_summary_stats           *)

LimbOr0(T, i) == IF i >= 1 /\ i <= Len(T) THEN T[i] ELSE 0

\* The limbs T times 2^d, in six limbs.
ShiftLeft(T, d) ==
    [i \in 1..6 |->
        ((LimbOr0(T, i - (d \div LimbBits)) * Pow2(d % LimbBits)) % B)
        + (LimbOr0(T, i - (d \div LimbBits) - 1) \div Pow2(LimbBits - (d % LimbBits)))]

RECURSIVE AddLimbs(_, _, _, _)
AddLimbs(x, y, i, c) ==
    IF i > Len(x) THEN <<>>
    ELSE <<(x[i] + y[i] + c) % B>> \o AddLimbs(x, y, i + 1, (x[i] + y[i] + c) \div B)

\* The exact sum of the positive doubles a and b, in units of 2^lo,
\* lo the smaller of their exponents.
ExactSum(a, b, lo) == AddLimbs(ShiftLeft(a.m, a.e - lo), ShiftLeft(b.m, b.e - lo), 1, 0)

\* 100 - 2^-47 and 100 + 2^-47 in units of 2^-47: the reals between them,
\* ends included, are those whose nearest double is 100.0.
BelowHundred == <<B - 1, B - 1, B - 1, 3199>>

AboveHundred == <<1, 0, 0, 3200>>

\* S * 2^lo rounds to the double 100.0.
RoundsToHundred(S, lo) ==
    /\ lo <= -47
    /\ ~LimbsLess(S, ShiftLeft(BelowHundred, (-47) - lo), 6)
    /\ ~LimbsLess(ShiftLeft(AboveHundred, (-47) - lo), S, 6)

SmallerOf(x, y) == IF x <= y THEN x ELSE y

\* a + b == 100 on doubles.
SumIsHundred(a, b) ==
    IF a.k = "nan" \/ b.k = "nan" THEN FALSE
    ELSE IF a.k = "zero" THEN b = F100
    ELSE IF b.k = "zero" THEN a = F100
    ELSE RoundsToHundred(ExactSum(a, b, SmallerOf(a.e, b.e)), SmallerOf(a.e, b.e))

\* 0 <= x <= 100 on doubles.
WithinHundred(x) == x.k # "nan" /\ ~FLess(x, ZeroF) /\ ~FLess(F100, x)

\* The summary statistics of a non-empty dataset have been returned.
Summarised == Ran /\ call = "get_summary_stats" /\ raised = "none"

\* C15: when every record's gender is male or female, the male and female
\* percentages of get_summary_stats add up to 100 and each lies between 0
\* and 100.
C15_GenderPctsSumToHundred ==
    (Summarised /\ Males + Females = Len(PRows)) =>
        /\ SumIsHundred(returned.male_pct, returned.female_pct)
        /\ WithinHundred(returned.male_pct)
        /\ WithinHundred(returned.female_pct)

\* C16: get_summary_stats on a stored processed dataset that has every
\* column and no record returns total = 0 and both gender percentages 0,
\* and raises nothing.
C16_EmptySummary ==
    (call = "get_summary_stats" /\ ~processed_data.none /\ Len(PRows) = 0
        /\ Columns \subseteq processed_data.cols) =>
        /\ raised = "none"
        /\ returned.total = 0
        /\ returned.male_pct = ZeroF
        /\ returned.female_pct = ZeroF

\* The statistics of an empty processed dataset, returned.
C16_Witness ==
    /\ call = "get_summary_stats"
    /\ raised = "none"
    /\ ~processed_data.none
    /\ Len(PRows) = 0
    /\ returned.total = 0
    /\ returned.male_count = 0
    /\ returned.male_pct = ZeroF

BandColumns == {"age_group", "tenure_group", "salary_group"}

\* C17: process_data leaves the dataset passed to it as it was, same
\* records and same columns, and holds the enriched records in objects of
\* its own.
C17_ArgumentUntouched ==
    [][call' = "process_data" =>
          /\ df' = df
          /\ ~data'.none
          /\ data'.id # df'.id
          /\ raised' = "none" =>
                /\ BandColumns \subseteq data'.cols
                /\ BandColumns \cap df'.cols = {}
                /\ processed_data'.id # df'.id]_vars

\* A dataset with records, processed: the bands are in data and not in the
\* caller's dataset.
C17_Witness ==
    /\ call = "process_data"
    /\ raised = "none"
    /\ Len(df.rows) > 0
    /\ df.cols = Columns
    /\ data.cols = Columns \cup BandColumns
    /\ data.id # df.id

\* C18: whenever the dataset of the analyzer's first process_data call is
\* processed again, whatever was processed in between, the stored insight
\* list is the list the first call left; and so it is when generate_insights
\* runs on the processed dataset that call left.
C18_RepeatGivesFirstList ==
    /\ (call = "process_data" /\ first_run.ran /\ df = first_run.df)
           => insights = first_run.insights
    /\ (call = "generate_insights" /\ first_run.ran
           /\ processed_data = first_run.processed_data)
           => insights = first_run.insights

Trending == Has("trend_up") \/ Has("trend_down")

\* C19: with at most 3 distinct departure years the insight engine raises
\* nothing and emits no trend insight, whatever the yearly counts; a trend
\* insight appears only with 4 distinct years or more.
C19_FewYearsNoTrend ==
    Ran =>
        /\ Cardinality(YearsOf) <= 3 => ~Trending
        /\ Trending => Cardinality(YearsOf) >= 4
        /\ (call \in {"process_data", "generate_insights"} /\ Cardinality(YearsOf) <= 3)
              => raised = "none"

\* Three distinct years with rising counts, and no trend insight.
C19_Witness ==
    /\ Ran
    /\ call = "process_data"
    /\ raised = "none"
    /\ Cardinality(YearsOf) = 3
    /\ RowsIn({SetMin(YearsOf)}) = 1
    /\ RowsIn({SetMax(YearsOf)}) = 2
    /\ ~Trending
    /\ Len(insights) >= 2
====
